---- MODULE Spec2Model ----
(***************************************************************************)
(* Model of the bounding-box analysis / PDF conversion service             *)
(* (src/server.js with analyzers/epsAnalyzer.js from src/unnamed/part_000).*)
(*                                                                         *)
(* Numbers.  A length in points is held as an integer number of THIRDS of  *)
(* a point, so that the SVG factor 96/72 applied to a whole number of      *)
(* points is exact.  Millimetres are held as integer hundredths, the       *)
(* result of toFixed(2).  Arithmetic is exact rational arithmetic: the     *)
(* IEEE-754 rounding of the JavaScript doubles is not modelled.            *)
(*                                                                         *)
(* Scheduling.  Node runs each handler synchronously up to the next        *)
(* external process (child_process.exec); the completion callback of the   *)
(* process, with everything the handler does up to the next exec or the    *)
(* response, is one action.                                                *)
(***************************************************************************)
EXTENDS Integers, Sequences, FiniteSets, TLC

VARIABLES
    reqs,        \* request slot -> the handler's locals and its position
    files,       \* the paths that exist under uploads/ and converted/
    clock        \* Date.now()

vars == <<reqs, files, clock>>

(***************************************************************************)
(* Bounds of the model.                                                    *)
(***************************************************************************)
NumReq == 2        \* requests of one behaviour
MaxClock == 1      \* Date.now() ranges over 0..MaxClock
CoordMax == 1      \* largest coordinate a document reports, in points

Reqs == 1..NumReq

(***************************************************************************)
(* Numbers: units, rounding, conversions.                                  *)
(***************************************************************************)

\* A numeric token of a text: an optional minus sign and digits.
NumTokens ==
    {[neg |-> FALSE, abs |-> n] : n \in 0..CoordMax} \cup {[neg |-> TRUE, abs |-> 1]}

\* parseFloat of a numeric token, in thirds of a point.
ParseFloat(tok) == IF tok.neg THEN -(3 * tok.abs) ELSE 3 * tok.abs

\* n/d rounded to the nearest integer, halves away from zero (d > 0).
RoundDiv(n, d) ==
    IF n >= 0 THEN (2 * n + d) \div (2 * d) ELSE -((2 * (-n) + d) \div (2 * d))

\* +ptToMm(pt).toFixed(2): pt in thirds of a point, result in hundredths of a mm.
\* pt/3 * 25.4/72 * 100 = pt * 2540 / 216.
PtToMmFixed2(pt) == RoundDiv(pt * 2540, 216)

\* x * SVG_DPI_FACTOR, exact for x a whole number of points (in thirds).
TimesSvgDpiFactor(x) == (x * 96) \div 72

\* +(mm * SVG_DPI_FACTOR).toFixed(2) on a millimetre value held in hundredths.
MmTimesSvgDpiFactorFixed2(mm) == RoundDiv(mm * 96, 72)

\* { ...a, ...b }: the keys of both, b's values winning.
Spread(a, b) ==
    [k \in (DOMAIN a) \cup (DOMAIN b) |-> IF k \in DOMAIN b THEN b[k] ELSE a[k]]

(***************************************************************************)
(* File names and paths.                                                   *)
(***************************************************************************)
\* Base names of uploads, as characters: "a", "a " and "a_".
BaseNames == {<<"a">>, <<"a", " ">>, <<"a", "_">>}

RawExts == {".eps", ".ps", ".pdf", ".ai", ".svg", ".SVG", ".txt", ""}

OriginalNames == [base : BaseNames, ext : RawExts]

\* The extension taken as it was sent, without toLowerCase.
ExtAsSent(e) == e

\* String.prototype.toLowerCase on an extension.
ToLowerCase(e) == IF e = ".SVG" THEN ".svg" ELSE e

\* The characters of an extension that path.basename leaves in place.
ExtChars(e) == IF e = ".SVG" THEN <<".", "S", "V", "G">> ELSE <<>>

\* path.basename(originalname, ext): the suffix is removed only on an exact match.
BaseName(name, ext) ==
    IF name.ext = ext THEN name.base ELSE name.base \o ExtChars(name.ext)

\* [a-z0-9_\-] under the i flag.
SafeChar(c) == c \in {"a", "S", "V", "G", "_", "-"}

\* baseName.replace(/[^a-z0-9_\-]/gi, '_') || 'file'
SafeBase(baseName) ==
    LET replaced == [i \in 1..Len(baseName) |->
                        IF SafeChar(baseName[i]) THEN baseName[i] ELSE "_"]
    IN  IF replaced = <<>> THEN <<"f", "i", "l", "e">> ELSE replaced

NoPath == [dir |-> "", t |-> 0, base |-> <<>>, sfx |-> ""]

\* req.file.path: multer's destination with a name of its own for each request.
UploadPath(n) == [dir |-> "uploads", t |-> n, base |-> <<>>, sfx |-> ""]

\* path.join(convertedDir, `${Date.now()}_${safeBase}.pdf`)
FinalPdfPath(now, safeBase) ==
    [dir |-> "converted", t |-> now, base |-> safeBase, sfx |-> ".pdf"]

\* finalPdfPath + '.tmp'
TmpPdfPath(final) == [final EXCEPT !.sfx = ".pdf.tmp"]

\* filePath + '.tmp.pdf'
PdfTemp(filePath) == [filePath EXCEPT !.sfx = ".tmp.pdf"]

\* try { if (fs.existsSync(p)) fs.unlinkSync(p); } catch (e) { console.warn(...) }
\* A cleanup that tests for the file and forgets to delete it.
UnlinkForgotten(fs, p, throws) == fs

UnlinkQuietly(fs, p, throws) == IF p \in fs /\ ~throws THEN fs \ {p} ELSE fs

(***************************************************************************)
(* What the rasterizer writes on its diagnostic stream, and its parsing.   *)
(***************************************************************************)
Boxes4 == [1..4 -> NumTokens]

BBoxLine(toks) == [kind |-> "BoundingBox", toks |-> toks]
HiResLine(toks) == [kind |-> "HiResBoundingBox", toks |-> toks]

\* The diagnostic streams of the bbox device: nothing, the integer record alone,
\* the high-resolution record alone, or both in the order the device prints them.
Stderrs ==
    {<<>>} \cup {<<BBoxLine(t)>> : t \in Boxes4} \cup {<<HiResLine(t)>> : t \in Boxes4}
           \cup {<<BBoxLine(t), HiResLine(t)>> : t \in Boxes4}

\* The box of the second page of a two-page document: the first page's, its
\* tokens in reverse order.
SecondPage(t) == [i \in 1..4 |-> t[5 - i]]

\* The diagnostic streams of the bbox device on documents of one and of two
\* pages (a pair of records per page), and streams without the
\* high-resolution record.
PagedStderrs ==
    {<<>>, <<BBoxLine([i \in 1..4 |-> [neg |-> FALSE, abs |-> 0]])>>}
        \cup {<<BBoxLine(t), HiResLine(t)>> : t \in Boxes4}
        \cup {<<BBoxLine(t), HiResLine(t),
                BBoxLine(SecondPage(t)), HiResLine(SecondPage(t))>> : t \in Boxes4}

\* The primary output stream: empty, or holding a high-resolution record.
Stdouts ==
    {<<>>, <<HiResLine([i \in 1..4 |-> [neg |-> FALSE, abs |-> 1]])>>}

\* The arguments of exec's callback: a zero exit with any streams, or a
\* non-zero exit with nothing, or with the records, on the diagnostic stream.
ExecResults ==
    [error : {FALSE}, stdout : Stdouts, stderr : PagedStderrs]
        \cup [error : {TRUE}, stdout : {<<>>},
              stderr : {<<>>, <<HiResLine([i \in 1..4 |-> [neg |-> FALSE, abs |-> 1]])>>}]

\* The streams of a run with two requests in flight: one document, or no record.
ConcStderrs ==
    {<<>>,
     <<HiResLine([i \in 1..4 |-> [neg |-> FALSE, abs |-> IF i = 3 THEN 1 ELSE 0]])>>}

\* A match that keeps the last high-resolution record of the stream.
RECURSIVE MatchLastHiRes(_)
MatchLastHiRes(stderr) ==
    IF stderr = <<>> THEN <<>>
    ELSE IF stderr[Len(stderr)].kind = "HiResBoundingBox" THEN stderr[Len(stderr)].toks
    ELSE MatchLastHiRes(SubSeq(stderr, 1, Len(stderr) - 1))

\* stderr.match(/%%HiResBoundingBox:\s*([-\d.]+)\s+([-\d.]+)\s+([-\d.]+)\s+([-\d.]+)/):
\* the tokens of the first high-resolution record, <<>> when there is none.
RECURSIVE MatchHiRes(_)
MatchHiRes(stderr) ==
    IF stderr = <<>> THEN <<>>
    ELSE IF Head(stderr).kind = "HiResBoundingBox" THEN Head(stderr).toks
    ELSE MatchHiRes(Tail(stderr))

Rejected(message) == [ok |-> FALSE, message |-> message]
Resolved(value) == [ok |-> TRUE, value |-> value]

\* runGhostscriptBBox of server.js: the promise's outcome from exec's callback arguments.
runGhostscriptBBox(error, stderr) ==
    IF error THEN Rejected("Ghostscript bbox failed")
    ELSE LET match == MatchHiRes(stderr) IN
         IF match = <<>>
         THEN Rejected("No HiResBoundingBox found in Ghostscript output")
         ELSE LET llx == ParseFloat(match[1])
                  lly == ParseFloat(match[2])
                  urx == ParseFloat(match[3])
                  ury == ParseFloat(match[4])
                  widthPt == urx - llx
                  heightPt == ury - lly
              IN  Resolved([llx |-> llx, lly |-> lly, urx |-> urx, ury |-> ury,
                            widthPt |-> widthPt, heightPt |-> heightPt,
                            width_mm |-> PtToMmFixed2(widthPt),
                            height_mm |-> PtToMmFixed2(heightPt),
                            source |-> "ghostscript"])

\* runGhostscriptBBox of analyzers/bboxGhostscript.js, which epsAnalyzer.js
\* does not import: its result names a 'method' and has no 'source'.
bboxGhostscriptJs(error, stderr) ==
    IF error THEN Rejected("Ghostscript bbox failed")
    ELSE LET match == MatchHiRes(stderr) IN
         IF match = <<>>
         THEN Rejected("No HiResBoundingBox found")
         ELSE LET llx == ParseFloat(match[1])
                  lly == ParseFloat(match[2])
                  urx == ParseFloat(match[3])
                  ury == ParseFloat(match[4])
                  widthPt == urx - llx
                  heightPt == ury - lly
              IN  Resolved([llx |-> llx, lly |-> lly, urx |-> urx, ury |-> ury,
                            widthPt |-> widthPt, heightPt |-> heightPt,
                            width_mm |-> PtToMmFixed2(widthPt),
                            height_mm |-> PtToMmFixed2(heightPt),
                            method |-> "bbox_render"])

\* runGhostscriptBBox of analyzers/epsAnalyzer.js (its own copy).
epsRunGhostscriptBBox(error, stderr) ==
    IF error THEN Rejected("Ghostscript bbox failed")
    ELSE LET match == MatchHiRes(stderr) IN
         IF match = <<>>
         THEN Rejected("No HiResBoundingBox found in Ghostscript output")
         ELSE LET llx == ParseFloat(match[1])
                  lly == ParseFloat(match[2])
                  urx == ParseFloat(match[3])
                  ury == ParseFloat(match[4])
                  widthPt == urx - llx
                  heightPt == ury - lly
              IN  Resolved([source |-> "ghostscript",
                            llx |-> llx, lly |-> lly, urx |-> urx, ury |-> ury,
                            widthPt |-> widthPt, heightPt |-> heightPt,
                            width_mm |-> PtToMmFixed2(widthPt),
                            height_mm |-> PtToMmFixed2(heightPt)])

(***************************************************************************)
(* The EPS header reader (analyzeEPS, step 1).                             *)
(***************************************************************************)
\* What an uploaded file holds, as far as the header reader can tell: unreadable,
\* readable with no "%%BoundingBox: n n n n" comment, or readable with a comment
\* of four integers (here the boxes a a b b).
NoContent == [readable |-> FALSE, header |-> <<>>]

EpsContents ==
    {NoContent, [readable |-> TRUE, header |-> <<>>]}
        \cup {[readable |-> TRUE, header |-> <<a, a, b, b>>] : a, b \in NumTokens}

\* (\d+) matches a token of digits only.
MatchesDigits(tok) == ~tok.neg

\* content.match(/%%BoundingBox:\s+(\d+)\s+(\d+)\s+(\d+)\s+(\d+)/) inside the try:
\* the tokens matched, <<>> on no match or on a read error.
MatchEpsHeader(content) ==
    IF content.readable /\ content.header # <<>>
       /\ \A i \in 1..4 : MatchesDigits(content.header[i])
    THEN content.header
    ELSE <<>>

\* The object analyzeEPS returns from the header.
epsHeaderResult(match) ==
    LET x1 == ParseFloat(match[1])
        y1 == ParseFloat(match[2])
        x2 == ParseFloat(match[3])
        y2 == ParseFloat(match[4])
        widthPt == x2 - x1
        heightPt == y2 - y1
    IN  [format |-> "eps", source |-> "eps_header",
         llx |-> x1, lly |-> y1, urx |-> x2, ury |-> y2,
         widthPt |-> widthPt, heightPt |-> heightPt,
         width_mm |-> PtToMmFixed2(widthPt),
         height_mm |-> PtToMmFixed2(heightPt)]

\* The object analyzeEPS returns from the fallback: { format: 'eps', ...bbox }.
epsFallbackResult(bbox) == Spread([format |-> "eps"], bbox)

(***************************************************************************)
(* The analyzers of server.js.                                             *)
(***************************************************************************)
analyzePDF(bbox) == Spread([format |-> "pdf", pageCount |-> 1], bbox)

analyzeAI(bbox) == Spread([format |-> "ai", pageCount |-> 1], bbox)

\* The object analyzeSVG returns from the probe of the converted PDF.
analyzeSVG(raw) ==
    [format |-> "svg", pageCount |-> 1,
     llx |-> raw.llx, lly |-> raw.lly, urx |-> raw.urx, ury |-> raw.ury,
     widthPt |-> TimesSvgDpiFactor(raw.widthPt),
     heightPt |-> TimesSvgDpiFactor(raw.heightPt),
     width_mm |-> MmTimesSvgDpiFactorFixed2(raw.width_mm),
     height_mm |-> MmTimesSvgDpiFactorFixed2(raw.height_mm),
     source |-> "svg_ghostscript_96dpi_fix"]

(***************************************************************************)
(* The crop step and the conversion response.                              *)
(***************************************************************************)
\* A crop box scaled by the SVG factor, as analyzeSVG scales its report.
bboxForCropDpiCorrected(rawBbox) ==
    [llx |-> TimesSvgDpiFactor(rawBbox.llx), lly |-> TimesSvgDpiFactor(rawBbox.lly),
     widthPt |-> TimesSvgDpiFactor(rawBbox.widthPt),
     heightPt |-> TimesSvgDpiFactor(rawBbox.heightPt)]

\* bboxForCrop of the three cases of /convert-to-pdf.
bboxForCrop(rawBbox) ==
    [llx |-> rawBbox.llx, lly |-> rawBbox.lly,
     widthPt |-> rawBbox.widthPt, heightPt |-> rawBbox.heightPt]

\* `${x}` for a number x: its sign characters and its magnitude.
NumberText(x) == [minus |-> IF x < 0 THEN 1 ELSE 0, digits |-> IF x < 0 THEN -x ELSE x]

\* `-${x}`: a minus sign written in front of the text of x.
MinusPrefixed(x) == [NumberText(x) EXCEPT !.minus = @ + 1]

\* The PostScript scanner reads a number from a text with at most one sign.
IsPsNumber(text) == text.minus <= 1

\* The page-device directive of cropPdfToBbox's command line in the earlier
\* server file (src/unnamed/part_001).
part001CropPdfToBbox(inputPdf, outputPdf, bbox) ==
    LET box == <<0, 0, bbox.widthPt, bbox.heightPt>> IN
    [input |-> inputPdf, output |-> outputPdf,
     PageSize |-> <<bbox.widthPt, bbox.heightPt>>,
     MediaBox |-> box, CropBox |-> box, BleedBox |-> box, TrimBox |-> box,
     ArtBox |-> box,
     PageOffsetText |-> <<MinusPrefixed(bbox.llx), MinusPrefixed(bbox.lly)>>]

\* The page-device directive of cropPdfToBbox's command line.
cropPdfToBbox(inputPdf, outputPdf, bbox) ==
    LET box == <<0, 0, bbox.widthPt, bbox.heightPt>> IN
    [input |-> inputPdf, output |-> outputPdf,
     DEVICEWIDTHPOINTS |-> bbox.widthPt, DEVICEHEIGHTPOINTS |-> bbox.heightPt,
     PageSize |-> <<bbox.widthPt, bbox.heightPt>>,
     MediaBox |-> box, CropBox |-> box, BleedBox |-> box, TrimBox |-> box,
     ArtBox |-> box,
     PageOffset |-> <<-bbox.llx, -bbox.lly>>,
     PageOffsetText |-> <<NumberText(-bbox.llx), NumberText(-bbox.lly)>>]

\* (rawBbox.source || 'ghostscript') + '_<ext>_cropped'
CroppedSource(rawBbox, ext) ==
    <<rawBbox.source,
      CASE ext = ".svg" -> "_svg_cropped"
        [] ext = ".ai"  -> "_ai_cropped"
        [] OTHER        -> "_pdf_cropped">>

\* The second pass without its try/catch: what it throws reaches the caller.
normalizePdfBoxesUncaught(throws) == [ok |-> ~throws, forced |-> ~throws]

\* normalizePdfBoxes: the page boxes are forced unless loading, mutating or
\* re-saving throws; the catch swallows the error and the function returns.
normalizePdfBoxes(throws) == [ok |-> TRUE, forced |-> ~throws]

\* The body of the success response of /convert-to-pdf.
convertResponse(final, rawBbox, ext) ==
    [ok |-> TRUE, pdfPath |-> <<"/converted/", final.t, final.base>>,
     pdfFileName |-> <<final.t, final.base>>, format |-> "pdf",
     llx |-> rawBbox.llx, lly |-> rawBbox.lly, urx |-> rawBbox.urx, ury |-> rawBbox.ury,
     widthPt |-> rawBbox.widthPt, heightPt |-> rawBbox.heightPt,
     width_mm |-> PtToMmFixed2(rawBbox.widthPt),
     height_mm |-> PtToMmFixed2(rawBbox.heightPt),
     source |-> CroppedSource(rawBbox, ext)]

(***************************************************************************)
(* State.                                                                  *)
(***************************************************************************)
NoResponse == [status |-> 0, body |-> <<>>]

\* No exec callback yet.
NoExec == [error |-> FALSE, stdout |-> <<>>, stderr |-> <<>>]

\* A request that has not arrived yet.
IdleReq ==
    [pc |-> "idle", op |-> "", originalname |-> [base |-> <<>>, ext |-> ""],
     hasFile |-> FALSE, filePath |-> NoPath, content |-> NoContent, ext |-> "",
     finalPdfPath |-> NoPath, rawBbox |-> <<>>, cropCmd |-> <<>>,
     boxesForced |-> FALSE,
     procs |-> <<>>,     \* the external processes started, in order
     passed |-> <<>>,    \* those of them that ended in success
     responses |-> 0,    \* the number of responses sent
     unlinkFailed |-> FALSE,   \* the deletion of the upload has thrown
     headerRead |-> FALSE,     \* analyzeEPS has read the content of the upload
     gs |-> NoExec,            \* the arguments of the probe's exec callback
     settled |-> <<>>,         \* the outcome of the probe's promise
     res |-> NoResponse]

Init ==
    /\ reqs = [r \in Reqs |-> IdleReq]
    /\ files = {}
    /\ clock = 0

\* Request r is the next to arrive, and fewer than cap have arrived.
CanReceive(r, cap) ==
    /\ reqs[r].pc = "idle"
    /\ \A q \in 1..(r - 1) : reqs[q].pc # "idle"
    /\ r <= cap

\* res.json(body) with the status line forgotten: Express answers 200.
RespondStatusOmitted(req, status, body) ==
    [req EXCEPT !.pc = "done", !.res = [status |-> 200, body |-> body],
                !.responses = @ + 1]

\* res.status(code).json(body), the handler's last word.
Respond(req, status, body) ==
    [req EXCEPT !.pc = "done", !.res = [status |-> status, body |-> body],
                !.responses = @ + 1]

\* The request after the handler's finally, which deletes the upload from
\* the files fs and swallows what fs.unlinkSync throws.
UploadCleaned(req, fs, throws) ==
    [req EXCEPT !.unlinkFailed = req.filePath \in fs /\ throws]

\* The message of the error fs.unlinkSync throws.
UnlinkError == "EPERM: operation not permitted, unlink"

(***************************************************************************)
(* POST /analyze                                                           *)
(***************************************************************************)

\* The handler up to its first external process, or to its response when it
\* starts none (no file, unsupported extension, EPS header found).
AnalyzeRequest(r, cap) ==
    /\ CanReceive(r, cap)
    /\ \E hasFile \in BOOLEAN, name \in OriginalNames, content \in EpsContents,
          unlinkThrows \in BOOLEAN :
        IF ~hasFile
        THEN /\ reqs' = [reqs EXCEPT ![r] =
                    Respond([IdleReq EXCEPT !.op = "analyze"], 400,
                            [error |-> "No file uploaded"])]
             /\ UNCHANGED files
        ELSE
             LET filePath == UploadPath(r)
                 ext == ToLowerCase(name.ext)
                 req == [IdleReq EXCEPT !.op = "analyze", !.originalname = name,
                                        !.hasFile = TRUE, !.filePath = filePath,
                                        !.ext = ext,
                                        !.headerRead = ext \in {".eps", ".ps"},
                                        !.content = IF ext \in {".eps", ".ps"}
                                                    THEN content ELSE NoContent]
                 uploaded == files \cup {filePath}
                 match == MatchEpsHeader(req.content)
             IN
             IF ext \in {".eps", ".ps"} /\ match # <<>>
             THEN /\ reqs' = [reqs EXCEPT ![r] =
                         UploadCleaned(
                             Respond(req, 200,
                                     Spread([fileName |-> name], epsHeaderResult(match))),
                             uploaded, unlinkThrows)]
                  /\ files' = UnlinkQuietly(uploaded, filePath, unlinkThrows)
             ELSE IF ext \in {".eps", ".ps", ".pdf", ".ai"}
             THEN /\ reqs' = [reqs EXCEPT ![r] =
                         [req EXCEPT !.pc = "probe", !.procs = <<"gs_bbox">>]]
                  /\ files' = uploaded
             ELSE IF ext = ".svg"
             THEN /\ reqs' = [reqs EXCEPT ![r] =
                         [req EXCEPT !.pc = "convert", !.procs = <<"rsvg-convert">>]]
                  /\ files' = uploaded
             ELSE /\ reqs' = [reqs EXCEPT ![r] =
                         UploadCleaned(
                             Respond(req, 400, [error |-> <<"Unsupported file type: ", ext>>]),
                             uploaded, unlinkThrows)]
                  /\ files' = UnlinkQuietly(uploaded, filePath, unlinkThrows)
    /\ UNCHANGED clock

\* analyzeSVG after rsvg-convert has exited: the probe is started, or the
\* conversion failure goes through analyzeSVG's finally and the handler's catch.
AnalyzeConverted(r) ==
    LET req == reqs[r]
        pdfTemp == PdfTemp(req.filePath)
    IN
    /\ req.pc = "convert" /\ req.op = "analyze"
    /\ \E error \in BOOLEAN, wrote \in BOOLEAN, tmpUnlinkThrows \in BOOLEAN,
          unlinkThrows \in BOOLEAN :
        /\ (req.filePath \notin files) => error
        /\ ~error => wrote
        /\ LET written == IF wrote THEN files \cup {pdfTemp} ELSE files IN
           IF ~error
           THEN /\ reqs' = [reqs EXCEPT ![r] =
                       [req EXCEPT !.pc = "probe", !.procs = Append(@, "gs_bbox"),
                                   !.passed = Append(@, "rsvg-convert")]]
                /\ files' = written
           ELSE \* finally { if (fs.existsSync(pdfTemp)) fs.unlinkSync(pdfTemp); }
                LET thrown == pdfTemp \in written /\ tmpUnlinkThrows
                    after == IF thrown THEN written ELSE written \ {pdfTemp}
                    message == IF thrown THEN UnlinkError
                               ELSE "SVG to PDF conversion failed"
                IN  /\ reqs' = [reqs EXCEPT ![r] =
                           UploadCleaned(Respond(req, 500, [error |-> message]),
                                         after, unlinkThrows)]
                    /\ files' = UnlinkQuietly(after, req.filePath, unlinkThrows)
    /\ UNCHANGED clock

\* The handler after the render probe has exited: the analyzer's result, the
\* response, and the cleanup of the finally blocks.
AnalyzeProbedWith(r, bbox, tmpUnlinkThrows, unlinkThrows) ==
    LET req == reqs[r]
        isSvg == req.ext = ".svg"
        pdfTemp == PdfTemp(req.filePath)
    IN
        /\ LET \* analyzeSVG's finally: an unlinkSync that throws replaces the outcome
               thrown == isSvg /\ pdfTemp \in files /\ tmpUnlinkThrows
               after == IF isSvg /\ ~thrown THEN files \ {pdfTemp} ELSE files
               outcome ==
                   IF thrown THEN Rejected(UnlinkError)
                   ELSE IF ~bbox.ok THEN bbox
                   ELSE Resolved(CASE req.ext \in {".eps", ".ps"} ->
                                        epsFallbackResult(bbox.value)
                                   [] req.ext = ".pdf" -> analyzePDF(bbox.value)
                                   [] req.ext = ".ai" -> analyzeAI(bbox.value)
                                   [] OTHER -> analyzeSVG(bbox.value))
               probedReq == IF bbox.ok
                            THEN [req EXCEPT !.rawBbox = bbox.value,
                                             !.passed = Append(@, "gs_bbox")]
                            ELSE req
           IN  /\ reqs' = [reqs EXCEPT ![r] =
                      UploadCleaned(IF outcome.ok
                      THEN Respond(probedReq, 200,
                                   Spread([fileName |-> req.originalname], outcome.value))
                      ELSE Respond(probedReq, 500, [error |-> outcome.message]),
                                    after, unlinkThrows)]
               /\ files' = UnlinkQuietly(after, req.filePath, unlinkThrows)
        /\ UNCHANGED clock

\* The file the probe of an Analyze request runs on.
AnalyzeProbedFile(req) ==
    IF req.ext = ".svg" THEN PdfTemp(req.filePath) ELSE req.filePath

\* The outcome of the probe of an Analyze request, from exec's callback
\* arguments: analyzeEPS calls its own copy of runGhostscriptBBox.
AnalyzeProbeOutcome(req, error, stderr) ==
    IF req.ext \in {".eps", ".ps"}
    THEN epsRunGhostscriptBBox(error, stderr)
    ELSE runGhostscriptBBox(error, stderr)

\* The probe's exit and the analyzer's continuation, in one step.
AnalyzeProbed(r, outputs) ==
    LET req == reqs[r] IN
    /\ req.pc = "probe" /\ req.op = "analyze"
    /\ \E error \in BOOLEAN, stderr \in outputs, tmpUnlinkThrows \in BOOLEAN,
          unlinkThrows \in BOOLEAN :
        /\ (AnalyzeProbedFile(req) \notin files) => error
        /\ AnalyzeProbedWith(r, AnalyzeProbeOutcome(req, error, stderr),
                             tmpUnlinkThrows, unlinkThrows)

\* exec's callback in runGhostscriptBBox settles the promise: the callback's
\* arguments and the outcome are kept, the awaiting analyzer has not resumed.
GsBBoxExited(r, results) ==
    LET req == reqs[r] IN
    /\ req.pc = "probe" /\ req.op = "analyze"
    /\ \E result \in results :
        /\ (AnalyzeProbedFile(req) \notin files) => result.error
        /\ reqs' = [reqs EXCEPT ![r] =
               [req EXCEPT !.pc = "settled", !.gs = result,
                           !.settled = AnalyzeProbeOutcome(req, result.error,
                                                           result.stderr)]]
    /\ UNCHANGED <<files, clock>>

\* The analyzer resumes after its await on the settled promise.
AnalyzeResumed(r) ==
    /\ reqs[r].pc = "settled" /\ reqs[r].op = "analyze"
    /\ \E tmpUnlinkThrows \in BOOLEAN, unlinkThrows \in BOOLEAN :
        AnalyzeProbedWith(r, reqs[r].settled, tmpUnlinkThrows, unlinkThrows)

(***************************************************************************)
(* POST /convert-to-pdf                                                    *)
(***************************************************************************)

\* The handler up to its first external process, or to its response when it
\* starts none (no file, extension not accepted).
ConvertRequest(r, cap) ==
    /\ CanReceive(r, cap)
    /\ \E hasFile \in BOOLEAN, name \in OriginalNames, unlinkThrows \in BOOLEAN :
        IF ~hasFile
        THEN /\ reqs' = [reqs EXCEPT ![r] =
                    Respond([IdleReq EXCEPT !.op = "convert"], 400,
                            [ok |-> FALSE, error |-> "No file uploaded"])]
             /\ UNCHANGED files
        ELSE
             LET filePath == UploadPath(r)
                 ext == ToLowerCase(name.ext)
                 req == [IdleReq EXCEPT !.op = "convert", !.originalname = name,
                                        !.hasFile = TRUE, !.filePath = filePath,
                                        !.ext = ext]
                 uploaded == files \cup {filePath}
                 safeBase == SafeBase(BaseName(name, ext))
                 finalPdfPath == FinalPdfPath(clock, safeBase)
             IN
             IF ext \notin {".svg", ".ai", ".pdf"}
             THEN /\ reqs' = [reqs EXCEPT ![r] =
                         UploadCleaned(
                             Respond(req, 400,
                                     [ok |-> FALSE,
                                      error |-> <<"Conversion to PDF not implemented for ", ext>>]),
                             uploaded, unlinkThrows)]
                  /\ files' = UnlinkQuietly(uploaded, filePath, unlinkThrows)
             ELSE /\ reqs' = [reqs EXCEPT ![r] =
                         [req EXCEPT !.finalPdfPath = finalPdfPath,
                                     !.pc = IF ext = ".pdf" THEN "probe" ELSE "convert",
                                     !.procs = CASE ext = ".svg" -> <<"rsvg-convert">>
                                                 [] ext = ".ai" -> <<"gs_pdfwrite">>
                                                 [] OTHER -> <<"gs_bbox">>]]
                  /\ files' = uploaded
    /\ UNCHANGED clock

\* After convertSvgToPdf / convertAiToPdf has exited: the probe of the baseline
\* PDF is started, or the failure goes to the handler's catch and finally.
ConvertConverted(r) ==
    LET req == reqs[r]
        tmpPdfPath == TmpPdfPath(req.finalPdfPath)
    IN
    /\ req.pc = "convert" /\ req.op = "convert"
    /\ \E error \in BOOLEAN, wrote \in BOOLEAN, unlinkThrows \in BOOLEAN :
        /\ (req.filePath \notin files) => error
        /\ ~error => wrote
        /\ LET written == IF wrote THEN files \cup {tmpPdfPath} ELSE files IN
           IF ~error
           THEN /\ reqs' = [reqs EXCEPT ![r] =
                       [req EXCEPT !.pc = "probe", !.procs = Append(@, "gs_bbox"),
                                   !.passed = Append(@, req.procs[1])]]
                /\ files' = written
           ELSE /\ reqs' = [reqs EXCEPT ![r] =
                       UploadCleaned(Respond(req, 500,
                               [ok |-> FALSE,
                                error |-> IF req.ext = ".svg"
                                          THEN "SVG to PDF conversion failed"
                                          ELSE "AI to PDF conversion failed"]),
                                     written, unlinkThrows)]
                /\ files' = UnlinkQuietly(written, req.filePath, unlinkThrows)
    /\ UNCHANGED clock

\* After the render probe has exited: the crop is started on the probe's box,
\* or the failure goes to the handler's catch and finally.
ConvertProbed(r, outputs) ==
    LET req == reqs[r]
        probed == IF req.ext = ".pdf" THEN req.filePath ELSE TmpPdfPath(req.finalPdfPath)
    IN
    /\ req.pc = "probe" /\ req.op = "convert"
    /\ \E error \in BOOLEAN, stderr \in outputs, unlinkThrows \in BOOLEAN :
        /\ (probed \notin files) => error
        /\ LET rawBbox == runGhostscriptBBox(error, stderr) IN
           IF rawBbox.ok
           THEN /\ reqs' = [reqs EXCEPT ![r] =
                       [req EXCEPT !.pc = "crop", !.rawBbox = rawBbox.value,
                                   !.cropCmd = cropPdfToBbox(probed, req.finalPdfPath,
                                                             bboxForCrop(rawBbox.value)),
                                   !.procs = Append(@, "gs_crop"),
                                   !.passed = Append(@, "gs_bbox")]]
                /\ UNCHANGED files
           ELSE /\ reqs' = [reqs EXCEPT ![r] =
                       UploadCleaned(
                           Respond(req, 500, [ok |-> FALSE, error |-> rawBbox.message]),
                           files, unlinkThrows)]
                /\ files' = UnlinkQuietly(files, req.filePath, unlinkThrows)
    /\ UNCHANGED clock

\* After the crop pass has exited: the second pass on the page boxes (its
\* failure is swallowed), the removal of the baseline PDF, the response and
\* the finally; or the crop failure goes to the handler's catch and finally.
ConvertCropped(r) ==
    LET req == reqs[r]
        tmpPdfPath == TmpPdfPath(req.finalPdfPath)
    IN
    /\ req.pc = "crop" /\ req.op = "convert"
    /\ \E err \in BOOLEAN, wrote \in BOOLEAN, normalizeThrows \in BOOLEAN,
          tmpUnlinkThrows \in BOOLEAN, unlinkThrows \in BOOLEAN :
        /\ (req.cropCmd.input \notin files) => err
        /\ ~err => wrote
        /\ LET written == IF wrote THEN files \cup {req.finalPdfPath} ELSE files
               \* if (err) return reject(err); await normalizePdfBoxes(...); resolve();
               second == normalizePdfBoxes(normalizeThrows)
               exited == IF err THEN req
                         ELSE [req EXCEPT !.boxesForced = second.forced,
                                          !.passed = Append(@, "gs_crop")]
           IN
           IF ~err /\ second.ok
           THEN LET after == IF req.ext = ".pdf" THEN written
                             ELSE UnlinkQuietly(written, tmpPdfPath, tmpUnlinkThrows)
                IN  /\ reqs' = [reqs EXCEPT ![r] =
                           UploadCleaned(
                               Respond(exited, 200,
                                   convertResponse(req.finalPdfPath, req.rawBbox, req.ext)),
                               after, unlinkThrows)]
                    /\ files' = UnlinkQuietly(after, req.filePath, unlinkThrows)
           ELSE /\ reqs' = [reqs EXCEPT ![r] =
                       UploadCleaned(
                           Respond(exited, 500, [ok |-> FALSE, error |-> "Command failed"]),
                           written, unlinkThrows)]
                /\ files' = UnlinkQuietly(written, req.filePath, unlinkThrows)
    /\ UNCHANGED clock

(***************************************************************************)
(* POST /convert-to-pdf of the earlier server file (src/unnamed/part_001). *)
(* It accepts .svg and .ai only and has no second pass on the page boxes;  *)
(* its conversion step is ConvertConverted, the same code.                 *)
(***************************************************************************)
Part001ConvertRequest(r, cap) ==
    /\ CanReceive(r, cap)
    /\ \E hasFile \in BOOLEAN, name \in OriginalNames, unlinkThrows \in BOOLEAN :
        IF ~hasFile
        THEN /\ reqs' = [reqs EXCEPT ![r] =
                    Respond([IdleReq EXCEPT !.op = "convert"], 400,
                            [ok |-> FALSE, error |-> "No file uploaded"])]
             /\ UNCHANGED files
        ELSE
             LET filePath == UploadPath(r)
                 ext == ToLowerCase(name.ext)
                 req == [IdleReq EXCEPT !.op = "convert", !.originalname = name,
                                        !.hasFile = TRUE, !.filePath = filePath,
                                        !.ext = ext]
                 uploaded == files \cup {filePath}
                 safeBase == SafeBase(BaseName(name, ext))
                 finalPdfPath == FinalPdfPath(clock, safeBase)
             IN
             IF ext \notin {".svg", ".ai"}
             THEN /\ reqs' = [reqs EXCEPT ![r] =
                         UploadCleaned(
                             Respond(req, 400,
                                     [ok |-> FALSE,
                                      error |-> <<"Conversion to PDF not implemented for ", ext>>]),
                             uploaded, unlinkThrows)]
                  /\ files' = UnlinkQuietly(uploaded, filePath, unlinkThrows)
             ELSE /\ reqs' = [reqs EXCEPT ![r] =
                         [req EXCEPT !.finalPdfPath = finalPdfPath,
                                     !.pc = "convert",
                                     !.procs = IF ext = ".svg" THEN <<"rsvg-convert">>
                                               ELSE <<"gs_pdfwrite">>]]
                  /\ files' = uploaded
    /\ UNCHANGED clock

\* After the render probe of the baseline PDF has exited.
Part001ConvertProbed(r, outputs) ==
    LET req == reqs[r]
        tmpPdfPath == TmpPdfPath(req.finalPdfPath)
    IN
    /\ req.pc = "probe" /\ req.op = "convert"
    /\ \E error \in BOOLEAN, stderr \in outputs, unlinkThrows \in BOOLEAN :
        /\ (tmpPdfPath \notin files) => error
        /\ LET rawBbox == runGhostscriptBBox(error, stderr) IN
           IF rawBbox.ok
           THEN /\ reqs' = [reqs EXCEPT ![r] =
                       [req EXCEPT !.pc = "crop", !.rawBbox = rawBbox.value,
                                   !.cropCmd = part001CropPdfToBbox(tmpPdfPath,
                                                   req.finalPdfPath,
                                                   bboxForCrop(rawBbox.value)),
                                   !.procs = Append(@, "gs_crop"),
                                   !.passed = Append(@, "gs_bbox")]]
                /\ UNCHANGED files
           ELSE /\ reqs' = [reqs EXCEPT ![r] =
                       UploadCleaned(
                           Respond(req, 500, [ok |-> FALSE, error |-> rawBbox.message]),
                           files, unlinkThrows)]
                /\ files' = UnlinkQuietly(files, req.filePath, unlinkThrows)
    /\ UNCHANGED clock

\* After the crop pass has exited. Ghostscript fails on a directive one of
\* whose offsets is not a number.
Part001ConvertCropped(r) ==
    LET req == reqs[r]
        tmpPdfPath == TmpPdfPath(req.finalPdfPath)
        offsets == req.cropCmd.PageOffsetText
    IN
    /\ req.pc = "crop" /\ req.op = "convert"
    /\ \E error \in BOOLEAN, wrote \in BOOLEAN, tmpUnlinkThrows \in BOOLEAN,
          unlinkThrows \in BOOLEAN :
        /\ (req.cropCmd.input \notin files) => error
        /\ (~IsPsNumber(offsets[1]) \/ ~IsPsNumber(offsets[2])) => error
        /\ ~error => wrote
        /\ LET written == IF wrote THEN files \cup {req.finalPdfPath} ELSE files IN
           IF ~error
           THEN LET after == UnlinkQuietly(written, tmpPdfPath, tmpUnlinkThrows)
                IN  /\ reqs' = [reqs EXCEPT ![r] =
                           UploadCleaned(
                               Respond([req EXCEPT !.passed = Append(@, "gs_crop")], 200,
                                   convertResponse(req.finalPdfPath, req.rawBbox, req.ext)),
                               after, unlinkThrows)]
                    /\ files' = UnlinkQuietly(after, req.filePath, unlinkThrows)
           ELSE /\ reqs' = [reqs EXCEPT ![r] =
                       UploadCleaned(
                           Respond(req, 500, [ok |-> FALSE, error |-> "PDF crop failed"]),
                           written, unlinkThrows)]
                /\ files' = UnlinkQuietly(written, req.filePath, unlinkThrows)
    /\ UNCHANGED clock

(***************************************************************************)
(* Environment.                                                            *)
(***************************************************************************)

\* A millisecond passes.
Tick ==
    /\ clock < MaxClock
    /\ clock' = clock + 1
    /\ UNCHANGED <<reqs, files>>

\* One request, of either operation, on any document.
Next ==
    \/ \E r \in Reqs :
          \/ AnalyzeRequest(r, 1)
          \/ AnalyzeConverted(r)
          \/ AnalyzeProbed(r, Stderrs)
          \/ ConvertRequest(r, 1)
          \/ ConvertConverted(r)
          \/ ConvertProbed(r, Stderrs)
          \/ ConvertCropped(r)
    \/ Tick

Spec == Init /\ [][Next]_vars

\* NumReq conversions in flight together.
ConcNext ==
    \/ \E r \in Reqs :
          \/ ConvertRequest(r, NumReq)
          \/ ConvertConverted(r)
          \/ ConvertProbed(r, ConcStderrs)
          \/ ConvertCropped(r)
    \/ Tick

ConcSpec == Init /\ [][ConcNext]_vars

\* One Analyze request, the exit of its probe and the analyzer's continuation
\* taken as two steps.
ProbeNext ==
    \E r \in Reqs :
        \/ AnalyzeRequest(r, 1)
        \/ AnalyzeConverted(r)
        \/ GsBBoxExited(r, ExecResults)
        \/ AnalyzeResumed(r)

ProbeSpec == Init /\ [][ProbeNext]_vars

\* One conversion request to the earlier server file.
Part001Next ==
    \/ \E r \in Reqs :
          \/ Part001ConvertRequest(r, 1)
          \/ ConvertConverted(r)
          \/ Part001ConvertProbed(r, Stderrs)
          \/ Part001ConvertCropped(r)
    \/ Tick

Part001Spec == Init /\ [][Part001Next]_vars

(***************************************************************************)
(* Properties.                                                             *)
(***************************************************************************)
Range(seq) == {seq[i] : i \in 1..Len(seq)}

Succeeded(req) == req.pc = "done" /\ req.res.status = 200
Failed(req) == req.pc = "done" /\ req.res.status >= 400

\* A conversion of an .svg upload whose crop has been started.
SvgCropStarted(req) ==
    req.op = "convert" /\ req.ext = ".svg" /\ "gs_crop" \in Range(req.procs)

\* The box (llx, lly, widthPt, heightPt) the crop command was built from.
CropBoxOf(cmd) ==
    [llx |-> -cmd.PageOffset[1], lly |-> -cmd.PageOffset[2],
     widthPt |-> cmd.PageSize[1], heightPt |-> cmd.PageSize[2]]

\* The box fields of a response body.
BodyBox(body) ==
    [llx |-> body.llx, lly |-> body.lly, urx |-> body.urx, ury |-> body.ury,
     widthPt |-> body.widthPt, heightPt |-> body.heightPt]

\* C1 as stated: in ConvertToPdf on an .svg, the box given to the crop step and
\* the box fields of the response are the probe's values times 96/72.
C1_CropUsesDpiCorrectedBox ==
    \A r \in Reqs :
        SvgCropStarted(reqs[r]) =>
            LET req == reqs[r]
                raw == req.rawBbox
            IN  /\ CropBoxOf(req.cropCmd) =
                       [llx |-> TimesSvgDpiFactor(raw.llx),
                        lly |-> TimesSvgDpiFactor(raw.lly),
                        widthPt |-> TimesSvgDpiFactor(raw.widthPt),
                        heightPt |-> TimesSvgDpiFactor(raw.heightPt)]
                /\ Succeeded(req) =>
                       BodyBox(req.res.body) =
                           [llx |-> TimesSvgDpiFactor(raw.llx),
                            lly |-> TimesSvgDpiFactor(raw.lly),
                            urx |-> TimesSvgDpiFactor(raw.urx),
                            ury |-> TimesSvgDpiFactor(raw.ury),
                            widthPt |-> TimesSvgDpiFactor(raw.widthPt),
                            heightPt |-> TimesSvgDpiFactor(raw.heightPt)]

\* C1 as amended: in ConvertToPdf on an .svg, the box given to the crop step and
\* the box fields of the response are the probe's values of the baseline PDF as
\* they are, with no 96/72 factor.
C1_CropUsesRawProbeBox ==
    \A r \in Reqs :
        SvgCropStarted(reqs[r]) =>
            LET req == reqs[r]
                raw == req.rawBbox
            IN  /\ CropBoxOf(req.cropCmd) =
                       [llx |-> raw.llx, lly |-> raw.lly,
                        widthPt |-> raw.urx - raw.llx, heightPt |-> raw.ury - raw.lly]
                /\ Succeeded(req) =>
                       BodyBox(req.res.body) =
                           [llx |-> raw.llx, lly |-> raw.lly,
                            urx |-> raw.urx, ury |-> raw.ury,
                            widthPt |-> raw.urx - raw.llx,
                            heightPt |-> raw.ury - raw.lly]

\* An .svg conversion has succeeded on a baseline PDF whose box has a corner
\* off the origin and a positive extent (so that the factor would show).
C1_Witness ==
    \E r \in Reqs :
        /\ SvgCropStarted(reqs[r]) /\ Succeeded(reqs[r])
        /\ reqs[r].rawBbox.llx < 0
        /\ reqs[r].rawBbox.widthPt > 0 /\ reqs[r].rawBbox.heightPt > 0

\* C2 as stated: the crop step is never started on a box with widthPt <= 0 or
\* heightPt <= 0, and a request whose probe returned such a box ends in an error
\* with no output PDF.
C2_NoCropOfEmptyBox ==
    \A r \in Reqs :
        LET req == reqs[r] IN
        (req.op = "convert" /\ "gs_bbox" \in Range(req.passed)
            /\ (req.rawBbox.widthPt <= 0 \/ req.rawBbox.heightPt <= 0)) =>
            /\ "gs_crop" \notin Range(req.procs)
            /\ req.pc = "done"
            /\ req.res.status >= 400
            /\ req.finalPdfPath \notin files

\* C3 as stated: when a ConvertToPdf request ends with an error response and the
\* deletions it attempted succeeded, neither <final>.tmp nor the final PDF of the
\* request is in the served directory.
C3_NoArtifactAfterError ==
    \A r \in Reqs :
        LET req == reqs[r] IN
        (req.op = "convert" /\ Failed(req) /\ req.hasFile
            /\ req.filePath \notin files) =>
            /\ TmpPdfPath(req.finalPdfPath) \notin files
            /\ req.finalPdfPath \notin files

\* The mandatory chain of a request has run to its end with every stage succeeding.
AllStagesPassed(req) ==
    /\ req.passed = req.procs
    /\ \/ req.op = "analyze" /\ "gs_bbox" \in Range(req.passed)
       \/ req.op = "convert" /\ "gs_crop" \in Range(req.passed)

\* C4 as stated: a deletion that throws never changes the outcome: a request all
\* of whose mandatory stages succeeded has the success response.
C4_CleanupNeverChangesOutcome ==
    \A r \in Reqs :
        (reqs[r].pc = "done" /\ AllStagesPassed(reqs[r])) => Succeeded(reqs[r])

\* The handler of a conversion is between its first external process and its response.
Converting(req) == req.op = "convert" /\ req.pc \in {"convert", "probe", "crop"}

\* C5 as stated: two ConvertToPdf requests running together have distinct final
\* paths and distinct intermediate paths.
C5_DistinctPaths ==
    \A a, b \in Reqs :
        (a # b /\ Converting(reqs[a]) /\ Converting(reqs[b])) =>
            /\ reqs[a].finalPdfPath # reqs[b].finalPdfPath
            /\ TmpPdfPath(reqs[a].finalPdfPath) # TmpPdfPath(reqs[b].finalPdfPath)

\* An Analyze of an .svg upload has returned its report.
SvgAnalyzed(req) == req.op = "analyze" /\ req.ext = ".svg" /\ Succeeded(req)

\* C6 as stated: an SVG Analyze whose probe yields W and H reports
\* widthPt = W*96/72, heightPt = H*96/72, and width_mm / height_mm the 2-decimal
\* rounding of the corrected, unrounded points times 25.4/72.
C6_SvgMmFromCorrectedPoints ==
    \A r \in Reqs :
        SvgAnalyzed(reqs[r]) =>
            LET raw == reqs[r].rawBbox
                body == reqs[r].res.body
                W == TimesSvgDpiFactor(raw.urx - raw.llx)
                H == TimesSvgDpiFactor(raw.ury - raw.lly)
            IN  /\ body.widthPt = W
                /\ body.heightPt = H
                /\ body.width_mm = RoundDiv(W * 2540, 216)
                /\ body.height_mm = RoundDiv(H * 2540, 216)

\* C7 as stated: every success response of either operation has
\* widthPt = urx - llx and heightPt = ury - lly on the values it reports.
C7_ExtentIsCornerDifference ==
    \A r \in Reqs :
        Succeeded(reqs[r]) =>
            LET body == reqs[r].res.body IN
            /\ body.widthPt = body.urx - body.llx
            /\ body.heightPt = body.ury - body.lly

\* The integer a token denotes, in points.
IntOf(tok) == IF tok.neg THEN -tok.abs ELSE tok.abs

\* An .eps/.ps upload that holds a "%%BoundingBox: a b c d" comment of four integers.
HasIntegerHeader(req) ==
    /\ req.op = "analyze" /\ req.ext \in {".eps", ".ps"}
    /\ req.content.readable /\ req.content.header # <<>>

\* C8 as stated: an .eps/.ps upload with a well-formed integer bounding-box
\* comment (negative integers included) starts no external process and is
\* answered with source eps_header and the corners of the comment.
C8_HeaderNeverProbes ==
    \A r \in Reqs :
        HasIntegerHeader(reqs[r]) =>
            LET req == reqs[r]
                h == req.content.header
            IN  /\ req.procs = <<>>
                /\ Succeeded(req)
                /\ req.res.body.source = "eps_header"
                /\ <<req.res.body.llx, req.res.body.lly,
                     req.res.body.urx, req.res.body.ury>>
                       = <<3 * IntOf(h[1]), 3 * IntOf(h[2]),
                           3 * IntOf(h[3]), 3 * IntOf(h[4])>>

\* C9 as stated: no success response reports a box with urx < llx or ury < lly.
C9_NoInvertedBox ==
    \A r \in Reqs :
        Succeeded(reqs[r]) =>
            /\ reqs[r].res.body.urx >= reqs[r].res.body.llx
            /\ reqs[r].res.body.ury >= reqs[r].res.body.lly

AnalyzeFields ==
    {"fileName", "format", "pageCount", "llx", "lly", "urx", "ury",
     "widthPt", "heightPt", "width_mm", "height_mm", "source"}

\* C10 as stated: every success response of Analyze holds all twelve fields of
\* the report, with pageCount = 1.
C10_ReportHasAllFields ==
    \A r \in Reqs :
        (reqs[r].op = "analyze" /\ Succeeded(reqs[r])) =>
            /\ AnalyzeFields \subseteq DOMAIN reqs[r].res.body
            /\ reqs[r].res.body.pageCount = 1

\* A mandatory stage of the request (conversion, probe or crop) has failed.
StageFailed(req) == req.pc = "done" /\ req.passed # req.procs

\* C11: a request one of whose mandatory stages failed has exactly one response,
\* an error response: a failure status and an 'error' field, with ok:false for
\* ConvertToPdf, and none of the fields of a success body.
C11_StageFailureIsOneError ==
    \A r \in Reqs :
        StageFailed(reqs[r]) =>
            LET req == reqs[r]
                body == req.res.body
            IN  /\ req.responses = 1
                /\ req.res.status >= 400
                /\ "error" \in DOMAIN body
                /\ {"pdfPath", "format", "widthPt", "source"} \cap DOMAIN body = {}
                /\ req.op = "convert" => ("ok" \in DOMAIN body /\ body.ok = FALSE)

\* A conversion has ended on a failed crop, after a conversion and a probe that passed.
C11_Witness ==
    \E r \in Reqs :
        /\ StageFailed(reqs[r])
        /\ reqs[r].procs = <<"rsvg-convert", "gs_bbox", "gs_crop">>
        /\ reqs[r].passed = <<"rsvg-convert", "gs_bbox">>

\* An external process that reads the upload itself is running: a conversion,
\* the probe of an upload that needs no conversion, or the crop of a PDF upload.
ReadsUpload(req) ==
    \/ req.pc = "convert"
    \/ req.pc = "probe" /\ req.procs = <<"gs_bbox">>
    \/ req.pc = "crop" /\ req.cropCmd.input = req.filePath

\* C12: the upload of a request that carried a file is gone once the request
\* has completed, unless its deletion threw, and it is still there while an
\* external process that reads it is running.
C12_UploadDeletedAfterLastReader ==
    \A r \in Reqs :
        LET req == reqs[r] IN
        req.hasFile =>
            /\ (req.pc = "done" /\ ~req.unlinkFailed) => req.filePath \notin files
            /\ ReadsUpload(req) => req.filePath \in files

\* A request that ran external processes has completed in success and its
\* upload is gone.
C12_Witness ==
    \E r \in Reqs :
        /\ reqs[r].pc = "done" /\ reqs[r].hasFile /\ ~reqs[r].unlinkFailed
        /\ reqs[r].filePath \notin files
        /\ reqs[r].procs # <<>>
        /\ Succeeded(reqs[r])

\* The strategy an Analyze request has taken, read from what it has done.
StrategyTaken(req) ==
    CASE req.headerRead -> "header-then-probe"
      [] ~req.headerRead /\ req.procs # <<>> /\ req.procs[1] = "gs_bbox" -> "probe"
      [] ~req.headerRead /\ req.procs # <<>> /\ req.procs[1] = "rsvg-convert" ->
             "convert-probe-correct"
      [] OTHER -> "none"

\* The strategy the extension of the original filename calls for.
StrategyOf(rawExt) ==
    CASE rawExt \in {".pdf", ".ai"} -> "probe"
      [] rawExt \in {".svg", ".SVG"} -> "convert-probe-correct"
      [] rawExt \in {".eps", ".ps"} -> "header-then-probe"
      [] OTHER -> "none"

\* C13: Analyze takes the strategy of the lowercased extension of the original
\* filename; any other extension, the empty one included, is answered with an
\* unsupported-format error, no process started and no content read.
C13_StrategyFromLowercasedExtension ==
    \A r \in Reqs :
        LET req == reqs[r]
            want == StrategyOf(req.originalname.ext)
        IN
        (req.op = "analyze" /\ req.hasFile) =>
            /\ StrategyTaken(req) = want
            /\ want = "header-then-probe" => req.procs \in {<<>>, <<"gs_bbox">>}
            /\ want = "probe" => req.procs = <<"gs_bbox">>
            /\ (want = "convert-probe-correct" /\ Len(req.procs) > 1) =>
                   req.procs = <<"rsvg-convert", "gs_bbox">>
            /\ (want = "convert-probe-correct" /\ Succeeded(req)) =>
                   req.res.body.source = "svg_ghostscript_96dpi_fix"
            /\ want = "none" =>
                   /\ req.pc = "done" /\ req.procs = <<>> /\ ~req.headerRead
                   /\ req.res.status = 400
                   /\ DOMAIN req.res.body = {"error"}
                   /\ req.res.body.error[1] = "Unsupported file type: "

\* An upload named in upper case has gone through the SVG strategy.
C13_Witness ==
    \E r \in Reqs :
        /\ reqs[r].op = "analyze" /\ reqs[r].originalname.ext = ".SVG"
        /\ Succeeded(reqs[r])
        /\ reqs[r].procs = <<"rsvg-convert", "gs_bbox">>

\* C14: once the crop pass of a conversion has exited in success, the
\* conversion answers with its success result and the cropped PDF is there,
\* whether the second pass on the page boxes went through or threw.
C14_SecondPassNeverFailsCrop ==
    \A r \in Reqs :
        LET req == reqs[r] IN
        (req.op = "convert" /\ "gs_crop" \in Range(req.passed)) =>
            /\ Succeeded(req)
            /\ req.res.body.ok
            /\ req.res.body.pdfPath = <<"/converted/", req.finalPdfPath.t, req.finalPdfPath.base>>
            /\ req.finalPdfPath \in files

\* A conversion has succeeded although its second pass threw.
C14_Witness ==
    \E r \in Reqs :
        /\ reqs[r].op = "convert" /\ "gs_crop" \in Range(reqs[r].passed)
        /\ ~reqs[r].boxesForced
        /\ Succeeded(reqs[r])

\* An .eps/.ps upload whose content cannot be read, or holds no bounding-box
\* comment, or one that is not of four unsigned integers.
EpsHeaderMissed(req) ==
    /\ req.op = "analyze" /\ req.hasFile
    /\ req.originalname.ext \in {".eps", ".ps"}
    /\ \/ ~req.content.readable
       \/ req.content.header = <<>>
       \/ \E i \in 1..4 : req.content.header[i].neg

\* C15: for an .eps/.ps upload without bounding-box comment, or unreadable,
\* Analyze runs the render probe once; a probe that gives a box is answered
\* with format 'eps', that box and source 'ghostscript', and an error
\* response comes only from a probe that failed, with the probe's message.
C15_HeaderMissFallsBackToProbe ==
    \A r \in Reqs :
        LET req == reqs[r]
            body == req.res.body
        IN
        EpsHeaderMissed(req) =>
            /\ req.procs = <<"gs_bbox">>
            /\ (req.pc = "done" /\ req.passed = <<"gs_bbox">>) =>
                   /\ req.res.status = 200
                   /\ body.format = "eps"
                   /\ "source" \in DOMAIN body /\ body.source = "ghostscript"
                   /\ \A k \in {"llx", "lly", "urx", "ury", "widthPt", "heightPt"} :
                          body[k] = req.rawBbox[k]
            /\ (req.pc = "done" /\ req.passed = <<>>) =>
                   /\ req.res.status = 500
                   /\ body.error \in {"Ghostscript bbox failed",
                                      "No HiResBoundingBox found in Ghostscript output"}

\* An unreadable .ps upload has been answered from the probe.
C15_Witness ==
    \E r \in Reqs :
        /\ EpsHeaderMissed(reqs[r]) /\ ~reqs[r].content.readable
        /\ reqs[r].originalname.ext = ".ps"
        /\ Succeeded(reqs[r])
        /\ reqs[r].res.body.source = "ghostscript"

\* The number a PostScript scanner reads from a text is v.
ReadsAs(text, v) ==
    /\ IsPsNumber(text)
    /\ (IF text.minus = 1 THEN -text.digits ELSE text.digits) = v

\* C16: the crop directive built from a box (llx, lly, widthPt, heightPt),
\* negative corners included, has PageSize [widthPt heightPt], its five boxes
\* [0 0 widthPt heightPt] and the page offset (-llx, -lly), nothing scaled;
\* the success response of a conversion of a PDF reports the width and height
\* of those boxes.
C16_CropDirectiveFromBox ==
    \A r \in Reqs :
        LET req == reqs[r]
            cmd == req.cropCmd
            b == req.rawBbox
            box == <<0, 0, b.widthPt, b.heightPt>>
        IN
        (req.op = "convert" /\ "gs_crop" \in Range(req.procs)) =>
            /\ cmd.PageSize = <<b.widthPt, b.heightPt>>
            /\ cmd.MediaBox = box /\ cmd.CropBox = box /\ cmd.BleedBox = box
            /\ cmd.TrimBox = box /\ cmd.ArtBox = box
            /\ ReadsAs(cmd.PageOffsetText[1], -b.llx)
            /\ ReadsAs(cmd.PageOffsetText[2], -b.lly)
            /\ (req.ext = ".pdf" /\ Succeeded(req)) =>
                   /\ req.res.body.widthPt = cmd.PageSize[1]
                   /\ req.res.body.heightPt = cmd.PageSize[2]

\* The probe of the request has exited.
ProbeExited(req) ==
    req.op = "analyze" /\ (req.pc = "settled" \/ (req.pc = "done" /\ req.procs # <<>>
                                                   /\ req.settled # <<>>))

\* The positions of the high-resolution records in a stream.
HiResAt(stream) == {i \in 1..Len(stream) : stream[i].kind = "HiResBoundingBox"}

\* C17: the probe's outcome follows from the exit status and the diagnostic
\* stream alone. A non-zero exit rejects; a zero exit without high-resolution
\* record rejects; otherwise the box is the first high-resolution record of
\* the diagnostic stream, with widthPt = urx - llx, heightPt = ury - lly and
\* source 'ghostscript'. The request runs the probe once, whatever its outcome.
C17_ProbeFromExitAndDiagnostics ==
    \A r \in Reqs :
        LET req == reqs[r]
            g == req.gs
            out == req.settled
            at == HiResAt(g.stderr)
        IN
        ProbeExited(req) =>
            /\ g.error => ~out.ok
            /\ (~g.error /\ at = {}) => ~out.ok
            /\ (~g.error /\ at # {}) =>
                   LET first == CHOOSE i \in at : \A j \in at : i <= j
                       t == g.stderr[first].toks
                   IN  /\ out.ok
                       /\ out.value.llx = 3 * IntOf(t[1])
                       /\ out.value.lly = 3 * IntOf(t[2])
                       /\ out.value.urx = 3 * IntOf(t[3])
                       /\ out.value.ury = 3 * IntOf(t[4])
                       /\ out.value.widthPt = 3 * (IntOf(t[3]) - IntOf(t[1]))
                       /\ out.value.heightPt = 3 * (IntOf(t[4]) - IntOf(t[2]))
                       /\ out.value.source = "ghostscript"
            /\ Cardinality({i \in 1..Len(req.procs) : req.procs[i] = "gs_bbox"}) = 1

\* The probe of a two-page document whose pages differ has resolved, with a
\* record on the primary output stream as well.
C17_Witness ==
    \E r \in Reqs :
        /\ ProbeExited(reqs[r]) /\ reqs[r].settled.ok
        /\ Len(reqs[r].gs.stderr) = 4
        /\ reqs[r].gs.stderr[2].toks # reqs[r].gs.stderr[4].toks
        /\ reqs[r].gs.stdout # <<>>

====
